---- MODULE Spec2Model ----
(***************************************************************************)
(* Model of the training-loop orchestration (src/src/pipeline.py) and of   *)
(* the composite loss computation (src/src/losses.py).                     *)
(*                                                                         *)
(* Spec           the run of pipeline(): make, then train().               *)
(* LossSpec       calls of rationale_loss, generative_loss and             *)
(*                EncoderDecoderLoss.forward on bounded inputs.            *)
(***************************************************************************)
EXTENDS Integers, Sequences, FiniteSets, TLC

VARIABLES
    \* ---- training run (pipeline.py) ----
    config,              \* the run's configuration (wandb.config) and the arguments of train()
    pc,                  \* position of the run inside pipeline()/train()
    epoch,               \* train(): loop variable of `for epoch in range(num_epochs)`
    batch_idx,           \* train(): index of the current batch inside the epoch
    step,                \* train(): the step counter
    checkpoint_counter,  \* train(): the checkpoint counter
    lr,                  \* train(): local lr, read before train_batch
    tf,                  \* train(): local tf, read before train_batch
    avg_loss,            \* train(): number of updates of the running average since its reset
    model_mode,          \* "train" or "eval" (model.train() / model.eval())
    grads,               \* the batches whose gradient is held in the parameters' .grad
    updates,             \* one entry per optimizer.step(): the batches its gradient covered
    lr_sched,            \* number of lr_scheduler.step() calls
    tf_sched,            \* number of teacher_force_scheduler.step() calls
    last_forward,        \* the last forward pass of the model
    val_idx,             \* train_evaluation(): index of the next validation batch
    checkpoints,         \* the checkpoint files written, in order
    wandb_log,           \* the records sent to the log sink, in order
    \* ---- a call of a loss function (losses.py) ----
    loss_fn,             \* the callable under call
    outputs,             \* the model output: a mapping from head name to logits
    targets,             \* the batch: a mapping from field name to tensor
    args,                \* the remaining arguments and construction-time parameters
    lpc,                 \* "new": object not yet constructed; "constructed";
                         \* "input": inputs set; "called": the call has returned
    loss_out,            \* what the last call returned
    prev_out,            \* what the call before the last change of the inputs returned
    edit                 \* the last change made to the inputs

trainVars == <<config, pc, epoch, batch_idx, step, checkpoint_counter, lr, tf,
               avg_loss, model_mode, grads, updates, lr_sched, tf_sched,
               last_forward, val_idx, checkpoints, wandb_log>>

lossVars == <<loss_fn, outputs, targets, args, lpc, loss_out, prev_out, edit>>

vars == <<trainVars, lossVars>>

(***************************************************************************)
(* Bounds of the explored configurations.                                  *)
(***************************************************************************)
MaxEpochs == 2
MaxStepsPerEpoch == 3
MaxAccumulation == 3
MaxInterval == 3
MaxValBatches == 2

\* "seq2seq" stands for any model_type string the code does not support.
ModelTypes == {"encoder_decoder", "encoder", "seq2seq"}

Configs ==
    [ num_epochs          : 1..MaxEpochs,
      steps_per_epoch     : 1..MaxStepsPerEpoch,
      accumulation_steps  : 1..MaxAccumulation,
      log_interval        : 1..MaxInterval,
      checkpoint_interval : 1..MaxInterval,
      val_batches         : 1..MaxValBatches,
      model_type          : ModelTypes,
      tf_given            : BOOLEAN ]   \* teacher_force_scheduler is not None

total_steps == config.steps_per_epoch * config.num_epochs

NoForward == [kind |-> "none", mode |-> "train", no_grad |-> FALSE,
              teacher_force |-> [from |-> "none", pos |-> 0]]

\* The value a scheduler holds is identified by the number of step() calls so far.
SchedulerValue(pos) == [from |-> "scheduler", pos |-> pos]
\* train(): the literal 0.0 used when no teacher-force scheduler is given.
LiteralZero == [from |-> "literal", pos |-> 0]

\* No loss call is under way.
LossIdle ==
    /\ loss_fn = "none"
    /\ outputs = <<>>
    /\ targets = <<>>
    /\ args = <<>>
    /\ lpc = "idle"
    /\ loss_out = <<>>
    /\ prev_out = <<>>
    /\ edit = "none"

Init ==
    /\ LossIdle
    /\ config \in Configs
    /\ pc = "make"
    /\ epoch = 0
    /\ batch_idx = 0
    /\ step = 0
    /\ checkpoint_counter = 0
    /\ lr = 0
    /\ tf = LiteralZero
    /\ avg_loss = 0
    /\ model_mode = "train"
    /\ grads = {}
    /\ updates = <<>>
    /\ lr_sched = 0
    /\ tf_sched = 0
    /\ last_forward = NoForward
    /\ val_idx = 0
    /\ checkpoints = <<>>
    /\ wandb_log = <<>>

(***************************************************************************)
(* make(config): make_model and make_loss accept two model types.          *)
(***************************************************************************)
make_model_ok(c) == c.model_type \in {"encoder_decoder", "encoder"}

make_loss_ok(c) == c.model_type \in {"encoder_decoder", "encoder"}

\* Variant: make hands any model_type on to train.
MakeUnchecked ==
    /\ pc = "make"
    /\ pc' = "train_entry"
    /\ UNCHANGED <<config, epoch, batch_idx, step, checkpoint_counter, lr, tf,
                   avg_loss, model_mode, grads, updates, lr_sched, tf_sched,
                   last_forward, val_idx, checkpoints, wandb_log, lossVars>>

Make ==
    /\ pc = "make"
    /\ pc' = IF make_model_ok(config) /\ make_loss_ok(config)
             THEN "train_entry" ELSE "config_error"
    /\ UNCHANGED <<config, epoch, batch_idx, step, checkpoint_counter, lr, tf,
                   avg_loss, model_mode, grads, updates, lr_sched, tf_sched,
                   last_forward, val_idx, checkpoints, wandb_log, lossVars>>

(***************************************************************************)
(* train(): the prologue up to the loops.                                  *)
(***************************************************************************)
TrainEntry ==
    /\ pc = "train_entry"
    /\ checkpoint_counter' = 0
    /\ step' = 0
    /\ avg_loss' = 0
    /\ model_mode' = "train"
    /\ epoch' = 0
    /\ batch_idx' = 0
    /\ pc' = "batch"
    /\ UNCHANGED <<config, lr, tf, grads, updates, lr_sched, tf_sched,
                   last_forward, val_idx, checkpoints, wandb_log, lossVars>>

(***************************************************************************)
(* train_batch, with the reads of lr and tf that precede the call.         *)
(***************************************************************************)
\* Variant: the boundary taken on the count of completed steps.
AccumulationBoundaryShifted(s) == (s + 1) % config.accumulation_steps = 0

AccumulationBoundary(s) == s % config.accumulation_steps = 0

\* The loss object of model_type "encoder" returns a bare tensor, which the
\* unpacking `loss, inner_losses = loss_fn(outputs, data)` cannot take.
LossReturnsPair(c) == c.model_type = "encoder_decoder"

\* Variant: the schedulers stepped together with the optimizer.
SchedulersOnBoundaryOnly ==
    IF step % config.accumulation_steps = 0
    THEN /\ updates' = Append(updates, grads \cup {step})
         /\ grads' = {}
         /\ lr_sched' = lr_sched + 1
         /\ tf_sched' = tf_sched + 1
    ELSE /\ grads' = grads \cup {step}
         /\ UNCHANGED <<updates, lr_sched, tf_sched>>

\* train_batch after the backward pass: the optimizer under the accumulation
\* rule, then the two schedulers.
OptimizerAndSchedulers ==
    /\ IF AccumulationBoundary(step)
       THEN /\ updates' = Append(updates, grads \cup {step})
            /\ grads' = {}
       ELSE /\ grads' = grads \cup {step}
            /\ UNCHANGED updates
    /\ lr_sched' = lr_sched + 1
    /\ tf_sched' = tf_sched + 1

TrainBatch ==
    /\ pc = "batch"
    /\ lr' = lr_sched
    /\ tf' = IF config.tf_given THEN SchedulerValue(tf_sched) ELSE LiteralZero
    /\ IF ~config.tf_given
       THEN \* teacher_force_scheduler.get_value() on None
            /\ pc' = "aborted"
            /\ UNCHANGED <<grads, updates, lr_sched, tf_sched, last_forward>>
       ELSE /\ last_forward' = [kind |-> "train", mode |-> model_mode,
                                no_grad |-> FALSE,
                                teacher_force |-> SchedulerValue(tf_sched)]
            /\ IF ~LossReturnsPair(config)
               THEN /\ pc' = "aborted"
                    /\ UNCHANGED <<grads, updates, lr_sched, tf_sched>>
               ELSE /\ OptimizerAndSchedulers
                    /\ pc' = "log"
    /\ UNCHANGED <<config, epoch, batch_idx, step, checkpoint_counter,
                   avg_loss, model_mode, val_idx, checkpoints, wandb_log, lossVars>>

(***************************************************************************)
(* train(): statistics and the per-step log record.                        *)
(***************************************************************************)
\* Variant: the checkpoint block entered right after the log record, the
\* evaluation block left out.
LogStepCheckpointFirst ==
    /\ pc = "log"
    /\ step' = step + 1
    /\ avg_loss' = avg_loss + 1
    /\ wandb_log' = Append(wandb_log,
                           [kind |-> "train", step |-> step + 1, lr |-> lr,
                            teacher_force |-> tf, counter |-> 0, n |-> 0, val_n |-> 0])
    /\ pc' = "checkpoint"
    /\ UNCHANGED <<config, epoch, batch_idx, checkpoint_counter, lr, tf,
                   model_mode, grads, updates, lr_sched, tf_sched,
                   last_forward, val_idx, checkpoints, lossVars>>

LogStep ==
    /\ pc = "log"
    /\ step' = step + 1
    /\ avg_loss' = avg_loss + 1
    /\ wandb_log' = Append(wandb_log,
                           [kind |-> "train", step |-> step + 1, lr |-> lr,
                            teacher_force |-> tf, counter |-> 0, n |-> 0, val_n |-> 0])
    /\ pc' = "eval"
    /\ UNCHANGED <<config, epoch, batch_idx, checkpoint_counter, lr, tf,
                   model_mode, grads, updates, lr_sched, tf_sched,
                   last_forward, val_idx, checkpoints, lossVars>>

(***************************************************************************)
(* train(): evaluation every log_interval steps or on the final step.      *)
(***************************************************************************)
\* Variant: no evaluation forced on the final step.
EvaluationOnIntervalOnly == step % config.log_interval = 0

EvaluationDue == (step % config.log_interval = 0) \/ (step = total_steps)

SkipEvaluation ==
    /\ pc = "eval"
    /\ ~EvaluationDue
    /\ pc' = "checkpoint"
    /\ UNCHANGED <<config, epoch, batch_idx, step, checkpoint_counter, lr, tf,
                   avg_loss, model_mode, grads, updates, lr_sched, tf_sched,
                   last_forward, val_idx, checkpoints, wandb_log, lossVars>>

\* train_evaluation: entry.
BeginEvaluation ==
    /\ pc = "eval"
    /\ EvaluationDue
    /\ model_mode' = "eval"
    /\ val_idx' = 0
    /\ pc' = "val_loop"
    /\ UNCHANGED <<config, epoch, batch_idx, step, checkpoint_counter, lr, tf,
                   avg_loss, grads, updates, lr_sched, tf_sched,
                   last_forward, checkpoints, wandb_log, lossVars>>

\* train_evaluation: one validation batch, under torch.no_grad().
EvalBatch ==
    /\ pc = "val_loop"
    /\ val_idx < config.val_batches
    /\ last_forward' = [kind |-> "val", mode |-> model_mode, no_grad |-> TRUE,
                        teacher_force |-> [from |-> "none", pos |-> 0]]
    /\ val_idx' = val_idx + 1
    /\ UNCHANGED <<config, pc, epoch, batch_idx, step, checkpoint_counter, lr, tf,
                   avg_loss, model_mode, grads, updates, lr_sched, tf_sched,
                   checkpoints, wandb_log, lossVars>>

\* Variant: the model is left in evaluation mode after train_evaluation.
EndEvaluationNoTrainMode ==
    /\ pc = "val_loop"
    /\ val_idx = config.val_batches
    /\ wandb_log' = Append(wandb_log,
                           [kind |-> "eval", step |-> step, lr |-> lr,
                            teacher_force |-> tf, counter |-> 0, n |-> avg_loss,
                            val_n |-> val_idx])
    /\ avg_loss' = 0
    /\ pc' = "checkpoint"
    /\ UNCHANGED <<config, epoch, batch_idx, step, checkpoint_counter, lr, tf,
                   model_mode, grads, updates, lr_sched, tf_sched, last_forward,
                   val_idx, checkpoints, lossVars>>

\* train_evaluation returns; model.train(); train_log; the averages are reset.
EndEvaluation ==
    /\ pc = "val_loop"
    /\ val_idx = config.val_batches
    /\ model_mode' = "train"
    /\ wandb_log' = Append(wandb_log,
                           [kind |-> "eval", step |-> step, lr |-> lr,
                            teacher_force |-> tf, counter |-> 0, n |-> avg_loss,
                            val_n |-> val_idx])
    /\ avg_loss' = 0
    /\ pc' = "checkpoint"
    /\ UNCHANGED <<config, epoch, batch_idx, step, checkpoint_counter, lr, tf,
                   grads, updates, lr_sched, tf_sched, last_forward, val_idx,
                   checkpoints, lossVars>>

(***************************************************************************)
(* train(): checkpoint every checkpoint_interval steps or on the final     *)
(* step.                                                                   *)
(***************************************************************************)
\* Variant: no checkpoint forced on the final step.
CheckpointOnIntervalOnly == step % config.checkpoint_interval = 0

CheckpointDue == (step % config.checkpoint_interval = 0) \/ (step = total_steps)

\* save_model_checkpoint: the file is named after the counter it is given.
save_model_checkpoint(e, s, counter) ==
    [file |-> counter, epoch |-> e, step |-> s, checkpoint_counter |-> counter]

\* Variant: the counter is not advanced after a checkpoint.
CheckpointCounterKept(counter) == counter

NextCheckpointCounter(counter) == counter + 1

SkipCheckpoint ==
    /\ pc = "checkpoint"
    /\ ~CheckpointDue
    /\ pc' = "next"
    /\ UNCHANGED <<config, epoch, batch_idx, step, checkpoint_counter, lr, tf,
                   avg_loss, model_mode, grads, updates, lr_sched, tf_sched,
                   last_forward, val_idx, checkpoints, wandb_log, lossVars>>

SaveCheckpoint ==
    /\ pc = "checkpoint"
    /\ CheckpointDue
    /\ checkpoints' = Append(checkpoints,
                             save_model_checkpoint(epoch, step, checkpoint_counter))
    /\ wandb_log' = Append(wandb_log,
                           [kind |-> "checkpoint", step |-> step, lr |-> 0,
                            teacher_force |-> LiteralZero,
                            counter |-> checkpoint_counter, n |-> 0,
                            val_n |-> 0])
    /\ checkpoint_counter' = NextCheckpointCounter(checkpoint_counter)
    /\ pc' = "next"
    /\ UNCHANGED <<config, epoch, batch_idx, step, lr, tf,
                   avg_loss, model_mode, grads, updates, lr_sched, tf_sched,
                   last_forward, val_idx, lossVars>>

(***************************************************************************)
(* train(): the two loops.                                                 *)
(***************************************************************************)
\* Variant: the batch loop runs once more than the epoch has batches.
NextBatchOneMore ==
    /\ pc = "next"
    /\ batch_idx + 1 <= config.steps_per_epoch
    /\ batch_idx' = batch_idx + 1
    /\ pc' = "batch"
    /\ UNCHANGED <<config, epoch, step, checkpoint_counter, lr, tf,
                   avg_loss, model_mode, grads, updates, lr_sched, tf_sched,
                   last_forward, val_idx, checkpoints, wandb_log, lossVars>>

NextBatch ==
    /\ pc = "next"
    /\ batch_idx + 1 < config.steps_per_epoch
    /\ batch_idx' = batch_idx + 1
    /\ pc' = "batch"
    /\ UNCHANGED <<config, epoch, step, checkpoint_counter, lr, tf,
                   avg_loss, model_mode, grads, updates, lr_sched, tf_sched,
                   last_forward, val_idx, checkpoints, wandb_log, lossVars>>

\* The epoch's batches are exhausted: memory reclamation, then the next epoch.
NextEpoch ==
    /\ pc = "next"
    /\ batch_idx + 1 = config.steps_per_epoch
    /\ epoch + 1 < config.num_epochs
    /\ epoch' = epoch + 1
    /\ batch_idx' = 0
    /\ pc' = "batch"
    /\ UNCHANGED <<config, step, checkpoint_counter, lr, tf,
                   avg_loss, model_mode, grads, updates, lr_sched, tf_sched,
                   last_forward, val_idx, checkpoints, wandb_log, lossVars>>

\* The last epoch ends: wandb.unwatch, accelerator.free_memory.
Finish ==
    /\ pc = "next"
    /\ batch_idx + 1 = config.steps_per_epoch
    /\ epoch + 1 = config.num_epochs
    /\ pc' = "done"
    /\ UNCHANGED <<config, epoch, batch_idx, step, checkpoint_counter, lr, tf,
                   avg_loss, model_mode, grads, updates, lr_sched, tf_sched,
                   last_forward, val_idx, checkpoints, wandb_log, lossVars>>

Next ==
    \/ Make
    \/ TrainEntry
    \/ TrainBatch
    \/ LogStep
    \/ SkipEvaluation
    \/ BeginEvaluation
    \/ EvalBatch
    \/ EndEvaluation
    \/ SkipCheckpoint
    \/ SaveCheckpoint
    \/ NextBatch
    \/ NextEpoch
    \/ Finish

Spec == Init /\ [][Next]_vars

\* The run as the interpreter executes it: a statement that can run does run.
FairSpec == Spec /\ WF_vars(Next)

(***************************************************************************)
(* Numbers of the loss computation (src/src/losses.py).                    *)
(*                                                                         *)
(* A tensor element is an exact fraction n/d (d > 0, lowest terms), or one *)
(* of the two special values of float arithmetic the code guards against:  *)
(* inf (x/0 for x > 0) and nan (0/0, inf*0).  Every value of the loss      *)
(* computation is non-negative, so one infinity suffices.  Rounding is not *)
(* modelled.                                                               *)
(***************************************************************************)
RECURSIVE GCD(_, _)
GCD(a, b) == IF b = 0 THEN a ELSE GCD(b, a % b)

Frac(n, d) ==
    LET g == GCD(n, d)
    IN  [kind |-> "num", n |-> n \div g, d |-> d \div g]

Num(i) == Frac(i, 1)
Inf == [kind |-> "inf", n |-> 1, d |-> 0]
NaN == [kind |-> "nan", n |-> 0, d |-> 0]

IsZero(x) == x.kind = "num" /\ x.n = 0

FAdd(x, y) ==
    IF x.kind = "nan" \/ y.kind = "nan" THEN NaN
    ELSE IF x.kind = "inf" \/ y.kind = "inf" THEN Inf
    ELSE Frac(x.n * y.d + y.n * x.d, x.d * y.d)

FMul(x, y) ==
    IF x.kind = "nan" \/ y.kind = "nan" THEN NaN
    ELSE IF x.kind = "inf" \/ y.kind = "inf"
         THEN (IF IsZero(x) \/ IsZero(y) THEN NaN ELSE Inf)
    ELSE Frac(x.n * y.n, x.d * y.d)

FDiv(x, y) ==
    IF x.kind = "nan" \/ y.kind = "nan" THEN NaN
    ELSE IF y.kind = "inf" THEN (IF x.kind = "inf" THEN NaN ELSE Num(0))
    ELSE IF x.kind = "inf" THEN Inf
    ELSE IF y.n = 0 THEN (IF x.n = 0 THEN NaN ELSE Inf)
    ELSE Frac(x.n * y.d, x.d * y.n)

FLess(x, y) == x.kind = "num" /\ y.kind = "num" /\ x.n * y.d < y.n * x.d

\* _EPSILON = 1e-7
EPSILON == Frac(1, 10000000)

\* torch.clamp(x, min=m); a nan stays a nan.
ClampMin(x, m) == IF FLess(x, m) THEN m ELSE x

RECURSIVE SumF(_)
SumF(xs) == IF xs = <<>> THEN Num(0) ELSE FAdd(Head(xs), SumF(Tail(xs)))

RECURSIVE SumInt(_)
SumInt(xs) == IF xs = <<>> THEN 0 ELSE Head(xs) + SumInt(Tail(xs))

\* tensor[keep]: the rows selected by a boolean index, in order.
RECURSIVE SelectRows(_, _)
SelectRows(rows, keep) ==
    IF rows = <<>> THEN <<>>
    ELSE IF Head(keep)
         THEN <<Head(rows)>> \o SelectRows(Tail(rows), Tail(keep))
         ELSE SelectRows(Tail(rows), Tail(keep))

(***************************************************************************)
(* Results of a loss call: a scalar, a tensor of per-example values, or    *)
(* the ValueError of apply_reduction.                                      *)
(***************************************************************************)
Scalar(x) == [kind |-> "scalar", value |-> x, rows |-> <<>>]
Tensor(xs) == [kind |-> "tensor", value |-> Num(0), rows |-> xs]
ValueError == [kind |-> "ValueError", value |-> Num(0), rows |-> <<>>]

\* Variant: the mean of an empty input taken as it is (0/0).
apply_reduction_no_guard(input, reduction) ==
    IF reduction = "none" THEN Tensor(input)
    ELSE IF reduction = "mean" THEN Scalar(FDiv(SumF(input), Num(Len(input))))
    ELSE IF reduction = "sum" THEN Scalar(SumF(input))
    ELSE ValueError

\* Variant: a mode that is neither "mean" nor "sum" leaves the input as it is.
apply_reduction_lenient(input, reduction) ==
    IF reduction = "mean"
    THEN Scalar(FDiv(SumF(IF Len(input) = 0 THEN <<Num(0)>> ELSE input),
                     Num(IF Len(input) = 0 THEN 1 ELSE Len(input))))
    ELSE IF reduction = "sum" THEN Scalar(SumF(input))
    ELSE Tensor(input)

apply_reduction(input, reduction) ==
    IF reduction = "none" THEN Tensor(input)
    ELSE LET inp == IF Len(input) = 0 THEN <<Num(0)>> ELSE input
         IN  IF reduction = "mean" THEN Scalar(FDiv(SumF(inp), Num(Len(inp))))
             ELSE IF reduction = "sum" THEN Scalar(SumF(inp))
             ELSE ValueError

(***************************************************************************)
(* The library's elementwise losses at the logits the model explores, in   *)
(* thousandths.                                                            *)
(***************************************************************************)
\* log(1 + exp(x)) for x in {0, 1}
Softplus(x) == IF x = 0 THEN 693 ELSE 1313

\* F.binary_cross_entropy_with_logits(x, y, reduction="none")
BCEWithLogits(x, y) == Frac(Softplus(x) - 1000 * x * y, 1000)

IGNORE == 0 - 100

\* A target position's logits over a vocabulary of two: 1 is (0, 0), 2 is (1, 0).
TokenLogits(id) == IF id = 1 THEN <<0, 0>> ELSE <<1, 0>>
TokenLogSumExp(id) == IF id = 1 THEN 693 ELSE 1313

\* F.cross_entropy(..., reduction="none") at one position (ignore_index -100).
CrossEntropy(id, label) ==
    IF label = IGNORE THEN Num(0)
    ELSE Frac(TokenLogSumExp(id) - 1000 * TokenLogits(id)[label + 1], 1000)

\* The classification head's logits over three classes: 1 is (0, 0, 0),
\* 2 is (1, 0, 0).
YngLogits(id) == IF id = 1 THEN <<0, 0, 0>> ELSE <<1, 0, 0>>
YngLogSumExp(id) == IF id = 1 THEN 1099 ELSE 1551

\* alpha * (1 - exp(-ce)) ** gamma * ce with alpha = 1, gamma = 2
FocalOfCrossEntropy(ce) ==
    IF ce = 1099 THEN 488 ELSE IF ce = 551 THEN 99 ELSE 964

categorical_focal_loss_with_logits(input, target, reduction) ==
    apply_reduction(
        [i \in 1..Len(input) |->
            Frac(FocalOfCrossEntropy(
                     YngLogSumExp(input[i]) - 1000 * YngLogits(input[i])[target[i] + 1]),
                 1000)],
        reduction)

(***************************************************************************)
(* The loss terms.  A tensor [batch, seq] is a sequence of rows; an        *)
(* optional example mask is a record: given, and its bits when given.      *)
(***************************************************************************)
NoMask == [given |-> FALSE, bits |-> <<>>]
Mask(bits) == [given |-> TRUE, bits |-> bits]

\* Variant: every position counted, ignored or not.
TokenCountAll(labels_row) == Len(labels_row)

\* torch.sum(labels != -100, dim=-1), for one example
TokenCount(labels_row) ==
    Cardinality({j \in DOMAIN labels_row : labels_row[j] # IGNORE})

\* The loss of one example: its summed cross-entropy over its token count.
GenerativeRowLoss(logits_row, labels_row) ==
    FDiv(SumF([j \in DOMAIN labels_row |-> CrossEntropy(logits_row[j], labels_row[j])]),
         ClampMin(Num(TokenCount(labels_row)), EPSILON))

generative_loss(logits, labels, reduction, mask) ==
    LET lg == IF mask.given THEN SelectRows(logits, mask.bits) ELSE logits
        lb == IF mask.given THEN SelectRows(labels, mask.bits) ELSE labels
    IN  apply_reduction([i \in 1..Len(lb) |-> GenerativeRowLoss(lg[i], lb[i])],
                        reduction)

\* labels = labels * passage_mask
MaskedLabels(labels, passage_mask) ==
    [i \in DOMAIN labels |->
        [j \in DOMAIN labels[i] |-> labels[i][j] * passage_mask[i][j]]]

\* Variant: the length threshold is not applied.
ValidRationalesNoThreshold(labels, max_rationale_length, mask) ==
    [i \in DOMAIN labels |-> (mask.given => mask.bits[i])]

\* valid_rationales: within the length threshold and not masked out
ValidRationales(labels, max_rationale_length, mask) ==
    [i \in DOMAIN labels |->
        /\ SumInt(labels[i]) <= max_rationale_length
        /\ (mask.given => mask.bits[i])]

\* Variant: one weight for every passage token, whatever its class.
RationaleWeightsUniform(labels_row, mask_row) ==
    LET totals == ClampMin(Num(SumInt(mask_row)), EPSILON)
        raw == [j \in DOMAIN labels_row |-> Num(mask_row[j])]
        normalize_factor == ClampMin(SumF(raw), EPSILON)
    IN  [j \in DOMAIN labels_row |-> FDiv(raw[j], normalize_factor)]

\* Variant: an infinite class weight is kept as it is.
RationaleWeightsNoRewrite(labels_row, mask_row) ==
    LET total_count == SumInt(mask_row)
        positives == SumInt(labels_row)
        negatives == total_count - positives
        totals == ClampMin(Num(total_count), EPSILON)
        by_class == [j \in DOMAIN labels_row |->
                        IF labels_row[j] = 1
                        THEN FDiv(totals, Num(positives))
                        ELSE FDiv(totals, Num(negatives))]
        in_passage == [j \in DOMAIN labels_row |->
                        FMul(by_class[j], Num(mask_row[j]))]
        normalize_factor == ClampMin(SumF(in_passage), EPSILON)
    IN  [j \in DOMAIN labels_row |-> FDiv(in_passage[j], normalize_factor)]

\* The normalized token weights of one surviving example.
RationaleWeights(labels_row, mask_row) ==
    LET total_count == SumInt(mask_row)
        positives == SumInt(labels_row)
        negatives == total_count - positives
        totals == ClampMin(Num(total_count), EPSILON)
        by_class == [j \in DOMAIN labels_row |->
                        IF labels_row[j] = 1
                        THEN FDiv(totals, Num(positives))
                        ELSE FDiv(totals, Num(negatives))]
        finite == [j \in DOMAIN labels_row |->
                        IF by_class[j] # Inf THEN by_class[j] ELSE Num(0)]
        in_passage == [j \in DOMAIN labels_row |->
                        FMul(finite[j], Num(mask_row[j]))]
        normalize_factor == ClampMin(SumF(in_passage), EPSILON)
    IN  [j \in DOMAIN labels_row |-> FDiv(in_passage[j], normalize_factor)]

\* The loss of one surviving example: its weighted token losses, summed.
RationaleRowLoss(logits_row, labels_row, mask_row) ==
    LET weights == RationaleWeights(labels_row, mask_row)
    IN  SumF([j \in DOMAIN labels_row |->
                FMul(BCEWithLogits(logits_row[j], labels_row[j]), weights[j])])

rationale_loss(logits, labels, passage_mask, max_rationale_length, reduction, mask) ==
    LET masked == MaskedLabels(labels, passage_mask)
        valid_rationales == ValidRationales(masked, max_rationale_length, mask)
        lb == SelectRows(masked, valid_rationales)
        pm == SelectRows(passage_mask, valid_rationales)
        lg == SelectRows(logits, valid_rationales)
    IN  apply_reduction([i \in 1..Len(lb) |-> RationaleRowLoss(lg[i], lb[i], pm[i])],
                        reduction)

\* The weights rationale_loss computes, one row per surviving example.
rationale_weights(labels, passage_mask, max_rationale_length, mask) ==
    LET masked == MaskedLabels(labels, passage_mask)
        valid_rationales == ValidRationales(masked, max_rationale_length, mask)
        lb == SelectRows(masked, valid_rationales)
        pm == SelectRows(passage_mask, valid_rationales)
    IN  [i \in 1..Len(lb) |-> RationaleWeights(lb[i], pm[i])]

yes_no_gen_loss(logits, labels, reduction, mask) ==
    LET lg == IF mask.given THEN SelectRows(logits, mask.bits) ELSE logits
        lb == IF mask.given THEN SelectRows(labels, mask.bits) ELSE labels
    IN  categorical_focal_loss_with_logits(lg, lb, reduction)

(***************************************************************************)
(* EncoderDecoderLoss.forward                                              *)
(***************************************************************************)
\* Variant: the three terms computed over the whole batch.
IsGenerativeAll(data) == NoMask

\* is_generative = ~targets["yes_no"].bool()
IsGenerative(data) ==
    Mask([i \in DOMAIN data.yes_no |-> ~data.yes_no[i]])

TotalLoss(w, yng, rat, gen) ==
    FAdd(FAdd(FMul(Num(w.yng), yng), FMul(Num(w.rationale), rat)),
         FMul(Num(w.generative), gen))

EncoderDecoderLoss_forward(w, max_rationale_length, model_out, data) ==
    LET is_generative == IsGenerative(data)
        yng == yes_no_gen_loss(model_out.encoder_yng_logits, data.yng_label,
                               "mean", NoMask).value
        rat == rationale_loss(model_out.encoder_rationale_logits,
                              data.rationale_labels, data.passage_mask,
                              max_rationale_length, "mean", is_generative).value
        gen == generative_loss(model_out.logits, data.labels,
                               "mean", is_generative).value
    IN  [total_loss |-> TotalLoss(w, yng, rat, gen),
         loss_logs  |-> [yng_loss |-> yng, rationale_loss |-> rat,
                         generative_loss |-> gen]]

(***************************************************************************)
(* Calls of the loss functions on bounded inputs.                          *)
(***************************************************************************)
MaxBatch == 2
MaxSeqLen == 3
MaxCells == 4
MaxRationaleLength == 1

\* [batch, seq] shapes of a tensor within the bounds.
Shapes ==
    {sh \in (1..MaxBatch) \X (1..MaxSeqLen) : sh[1] * sh[2] <= MaxCells}

\* Shapes of a batch with a rationale tensor and a target tensor.
CompositeShapes ==
    {sh \in (1..MaxBatch) \X (1..MaxSeqLen) \X (1..MaxSeqLen) :
        sh[1] * (sh[2] + sh[3]) <= MaxCells}

\* One position of the rationale head: its logit, its label, its passage bit.
RationaleCells ==
    [logit : {0, 1}, label : {0, 1}, mask : {1}]
        \cup {[logit |-> 0, label |-> 0, mask |-> 0],
              [logit |-> 1, label |-> 1, mask |-> 0]}

\* One position of the target: its logits (see TokenLogits) and its label.
TargetCells == [logit : {1, 2}, label : {IGNORE, 0, 1}]

\* One example's classification logits (see YngLogits) and label.
YngCells == {[logit |-> 1, label |-> 2], [logit |-> 2, label |-> 0],
             [logit |-> 2, label |-> 1]}

\* The smaller alphabets of the composite calls.
CompositeRationaleCells ==
    {[logit |-> 0, label |-> 1, mask |-> 1], [logit |-> 1, label |-> 0, mask |-> 1],
     [logit |-> 1, label |-> 1, mask |-> 1], [logit |-> 1, label |-> 1, mask |-> 0]}

CompositeTargetCells ==
    {[logit |-> 1, label |-> IGNORE], [logit |-> 1, label |-> 0],
     [logit |-> 2, label |-> 1]}

\* The reductions of the explored calls; "none" is read through the
\* per-example values each call records.
Reductions == {"mean", "sum"}

\* yng_loss_weight, rationale_loss_weight, generative_loss_weight
WeightChoices ==
    {[yng |-> 1, rationale |-> 1, generative |-> 1],
     [yng |-> 2, rationale |-> 3, generative |-> 5]}

Masks(b) == {NoMask} \cup {Mask(bits) : bits \in [1..b -> BOOLEAN]}

Field(m, f) == [i \in DOMAIN m |-> [j \in DOMAIN m[i] |-> m[i][j][f]]]

NoTensor == <<>>

\* No training run is under way.
TrainIdle ==
    /\ config = [num_epochs |-> 1, steps_per_epoch |-> 1, accumulation_steps |-> 1,
                 log_interval |-> 1, checkpoint_interval |-> 1, val_batches |-> 1,
                 model_type |-> "encoder_decoder", tf_given |-> TRUE]
    /\ pc = "idle"
    /\ epoch = 0
    /\ batch_idx = 0
    /\ step = 0
    /\ checkpoint_counter = 0
    /\ lr = 0
    /\ tf = LiteralZero
    /\ avg_loss = 0
    /\ model_mode = "train"
    /\ grads = {}
    /\ updates = <<>>
    /\ lr_sched = 0
    /\ tf_sched = 0
    /\ last_forward = NoForward
    /\ val_idx = 0
    /\ checkpoints = <<>>
    /\ wandb_log = <<>>

RationaleInputs ==
    /\ loss_fn = "rationale_loss"
    /\ \E sh \in Shapes :
         /\ \E m \in [1..sh[1] -> [1..sh[2] -> RationaleCells]] :
              /\ outputs = [logits |-> NoTensor,
                            encoder_rationale_logits |-> Field(m, "logit"),
                            encoder_yng_logits |-> NoTensor]
              /\ targets = [labels |-> NoTensor,
                            rationale_labels |-> Field(m, "label"),
                            passage_mask |-> Field(m, "mask"),
                            yng_label |-> NoTensor,
                            yes_no |-> NoTensor]
         /\ \E mk \in Masks(sh[1]), r \in Reductions, mx \in 0..MaxRationaleLength :
              args = [w |-> [yng |-> 1, rationale |-> 1, generative |-> 1],
                      max_rationale_length |-> mx, reduction |-> r, mask |-> mk]

GenerativeInputs ==
    /\ loss_fn = "generative_loss"
    /\ \E sh \in Shapes :
         /\ \E m \in [1..sh[1] -> [1..sh[2] -> TargetCells]] :
              /\ outputs = [logits |-> Field(m, "logit"),
                            encoder_rationale_logits |-> NoTensor,
                            encoder_yng_logits |-> NoTensor]
              /\ targets = [labels |-> Field(m, "label"),
                            rationale_labels |-> NoTensor,
                            passage_mask |-> NoTensor,
                            yng_label |-> NoTensor,
                            yes_no |-> NoTensor]
         /\ \E mk \in Masks(sh[1]), r \in Reductions :
              args = [w |-> [yng |-> 1, rationale |-> 1, generative |-> 1],
                      max_rationale_length |-> 0, reduction |-> r, mask |-> mk]

CompositeInputs ==
    /\ loss_fn = "EncoderDecoderLoss"
    /\ \E sh \in CompositeShapes :
         \E rm \in [1..sh[1] -> [1..sh[2] -> CompositeRationaleCells]],
            tm \in [1..sh[1] -> [1..sh[3] -> CompositeTargetCells]],
            ym \in [1..sh[1] -> YngCells],
            yn \in [1..sh[1] -> BOOLEAN] :
              /\ outputs = [logits |-> Field(tm, "logit"),
                            encoder_rationale_logits |-> Field(rm, "logit"),
                            encoder_yng_logits |-> [i \in DOMAIN ym |-> ym[i].logit]]
              /\ targets = [labels |-> Field(tm, "label"),
                            rationale_labels |-> Field(rm, "label"),
                            passage_mask |-> Field(rm, "mask"),
                            yng_label |-> [i \in DOMAIN ym |-> ym[i].label],
                            yes_no |-> yn]
    /\ \E w \in WeightChoices, mx \in 0..MaxRationaleLength :
         args = [w |-> w, max_rationale_length |-> mx, reduction |-> "mean",
                 mask |-> NoMask]

\* The reduction strings a caller passes: the three supported ones and one
\* that is not supported.
AllReductions == {"none", "mean", "sum", "max"}

ReductionValues == {Num(0), Frac(1, 2), Num(3)}

\* apply_reduction called directly on a one-dimensional input, empty or not.
ReductionInputs ==
    /\ loss_fn = "apply_reduction"
    /\ \E n \in 0..MaxBatch :
         \E xs \in [1..n -> ReductionValues] :
            outputs = [logits |-> xs,
                       encoder_rationale_logits |-> NoTensor,
                       encoder_yng_logits |-> NoTensor]
    /\ targets = [labels |-> NoTensor,
                  rationale_labels |-> NoTensor,
                  passage_mask |-> NoTensor,
                  yng_label |-> NoTensor,
                  yes_no |-> NoTensor]
    /\ \E r \in AllReductions :
         args = [w |-> [yng |-> 1, rationale |-> 1, generative |-> 1],
                 max_rationale_length |-> 0, reduction |-> r, mask |-> NoMask]
    /\ lpc = "input"

\* The loss classes that take a reduction argument.
LossClasses ==
    {"EncoderDecoderGenerativeLoss", "EncoderDecoderRationaleLoss",
     "EncoderRationaleLoss"}

\* A loss object about to be constructed with some reduction string, and the
\* one-example batch it is called with afterwards.
LossObjectInputs ==
    /\ loss_fn \in LossClasses
    /\ \E rc \in RationaleCells, tc \in TargetCells :
         /\ outputs = [logits |-> <<<<tc.logit>>>>,
                       encoder_rationale_logits |-> <<<<rc.logit>>>>,
                       encoder_yng_logits |-> NoTensor]
         /\ targets = [labels |-> <<<<tc.label>>>>,
                       rationale_labels |-> <<<<rc.label>>>>,
                       passage_mask |-> <<<<rc.mask>>>>,
                       yng_label |-> NoTensor,
                       yes_no |-> NoTensor]
    /\ \E r \in AllReductions, mx \in 0..MaxRationaleLength :
         args = [w |-> [yng |-> 1, rationale |-> 1, generative |-> 1],
                 max_rationale_length |-> mx, reduction |-> r, mask |-> NoMask]
    /\ lpc = "new"

NoOut == [result |-> Scalar(Num(0)), detail |-> <<>>]

LossInit ==
    /\ TrainIdle
    /\ \/ (RationaleInputs \/ GenerativeInputs \/ CompositeInputs) /\ lpc = "input"
       \/ ReductionInputs
       \/ LossObjectInputs
    /\ loss_out = NoOut
    /\ prev_out = NoOut
    /\ edit = "none"

\* EncoderDecoderRationaleLoss.__call__, or rationale_loss called directly.
CallRationaleLoss ==
    /\ lpc = "input"
    /\ loss_fn = "rationale_loss"
    /\ loss_out' =
         [result |-> rationale_loss(outputs.encoder_rationale_logits,
                                    targets.rationale_labels, targets.passage_mask,
                                    args.max_rationale_length, args.reduction,
                                    args.mask),
          detail |-> rationale_weights(targets.rationale_labels, targets.passage_mask,
                                       args.max_rationale_length, args.mask)]
    /\ lpc' = "called"
    /\ UNCHANGED <<trainVars, loss_fn, outputs, targets, args, prev_out, edit>>

\* EncoderDecoderGenerativeLoss.__call__, or generative_loss called directly.
CallGenerativeLoss ==
    /\ lpc = "input"
    /\ loss_fn = "generative_loss"
    /\ loss_out' =
         [result |-> generative_loss(outputs.logits, targets.labels,
                                     args.reduction, args.mask),
          detail |-> generative_loss(outputs.logits, targets.labels,
                                     "none", args.mask).rows]
    /\ lpc' = "called"
    /\ UNCHANGED <<trainVars, loss_fn, outputs, targets, args, prev_out, edit>>

CallForward ==
    /\ lpc = "input"
    /\ loss_fn = "EncoderDecoderLoss"
    /\ loss_out' =
         [result |-> EncoderDecoderLoss_forward(args.w, args.max_rationale_length,
                                                outputs, targets),
          detail |-> <<>>]
    /\ lpc' = "called"
    /\ UNCHANGED <<trainVars, loss_fn, outputs, targets, args, prev_out, edit>>

CallApplyReduction ==
    /\ lpc = "input"
    /\ loss_fn = "apply_reduction"
    /\ loss_out' = [result |-> apply_reduction(outputs.logits, args.reduction),
                    detail |-> <<>>]
    /\ lpc' = "called"
    /\ UNCHANGED <<trainVars, loss_fn, outputs, targets, args, prev_out, edit>>

\* Variant: the constructors check the reduction string.
LossConstructorValidates(reduction) == reduction \in {"none", "mean", "sum"}

\* The constructors check nothing about the reduction string.
LossConstructorAccepts(reduction) == TRUE

\* __init__ of a loss class: the arguments are stored on the object.
ConstructLoss ==
    /\ lpc = "new"
    /\ loss_fn \in LossClasses
    /\ lpc' = IF LossConstructorAccepts(args.reduction) THEN "constructed"
              ELSE "ValueError"
    /\ UNCHANGED <<trainVars, loss_fn, outputs, targets, args, loss_out, prev_out,
                   edit>>

\* __call__ of a constructed loss object, with the reduction it has stored.
CallLossObject ==
    /\ lpc = "constructed"
    /\ loss_fn \in LossClasses
    /\ loss_out' =
         [result |->
            IF loss_fn = "EncoderDecoderGenerativeLoss"
            THEN generative_loss(outputs.logits, targets.labels, args.reduction,
                                 args.mask)
            ELSE rationale_loss(outputs.encoder_rationale_logits,
                                targets.rationale_labels, targets.passage_mask,
                                args.max_rationale_length, args.reduction,
                                args.mask),
          detail |-> <<>>]
    /\ lpc' = "called"
    /\ UNCHANGED <<trainVars, loss_fn, outputs, targets, args, prev_out, edit>>

\* Example i is left out of the rationale loss: its rationale is longer than
\* the threshold, or the example mask excludes it.
Discarded(lbls, pmask, i) ==
    \/ SumInt([j \in DOMAIN lbls[i] |-> lbls[i][j] * pmask[i][j]])
           > args.max_rationale_length
    \/ (loss_fn = "rationale_loss" /\ args.mask.given /\ ~args.mask.bits[i])
    \/ (loss_fn = "EncoderDecoderLoss" /\ targets.yes_no[i])

\* The caller changes the rationale logit and label of one position of a
\* discarded example, which stays discarded, and calls again.
PerturbDiscarded ==
    /\ lpc = "called"
    /\ loss_fn \in {"rationale_loss", "EncoderDecoderLoss"}
    /\ \E i \in DOMAIN targets.rationale_labels :
         \E j \in DOMAIN targets.rationale_labels[i] :
           \E lg \in {0, 1}, lb \in {0, 1} :
             LET new_labels == [targets.rationale_labels EXCEPT ![i][j] = lb]
                 new_logits == [outputs.encoder_rationale_logits EXCEPT ![i][j] = lg]
             IN  /\ [logit |-> lg, label |-> lb, mask |-> targets.passage_mask[i][j]]
                        \in RationaleCells
                 /\ <<lg, lb>> # <<outputs.encoder_rationale_logits[i][j],
                                   targets.rationale_labels[i][j]>>
                 /\ Discarded(targets.rationale_labels, targets.passage_mask, i)
                 /\ Discarded(new_labels, targets.passage_mask, i)
                 /\ targets' = [targets EXCEPT !.rationale_labels = new_labels]
                 /\ outputs' = [outputs EXCEPT !.encoder_rationale_logits = new_logits]
    /\ prev_out' = loss_out
    /\ loss_out' = NoOut
    /\ edit' = "perturb"
    /\ lpc' = "input"
    /\ UNCHANGED <<trainVars, loss_fn, args>>

\* The caller pads the targets by one ignored position per example, the model
\* giving some logits there, and calls again.
PadTargets ==
    /\ lpc = "called"
    /\ loss_fn = "generative_loss"
    /\ edit = "none"
    /\ \E lg \in {1, 2} :
         /\ targets' = [targets EXCEPT !.labels =
                          [i \in DOMAIN targets.labels |->
                              Append(targets.labels[i], IGNORE)]]
         /\ outputs' = [outputs EXCEPT !.logits =
                          [i \in DOMAIN outputs.logits |->
                              Append(outputs.logits[i], lg)]]
    /\ prev_out' = loss_out
    /\ loss_out' = NoOut
    /\ edit' = "pad"
    /\ lpc' = "input"
    /\ UNCHANGED <<trainVars, loss_fn, args>>

LossNext ==
    \/ CallRationaleLoss
    \/ CallGenerativeLoss
    \/ CallForward
    \/ CallApplyReduction
    \/ ConstructLoss
    \/ CallLossObject
    \/ PerturbDiscarded
    \/ PadTargets

LossSpec == LossInit /\ [][LossNext]_vars

(***************************************************************************)
(* Properties of the loss calls.                                           *)
(***************************************************************************)
Called(fn) == loss_fn = fn /\ lpc = "called"

\* The examples whose yes_no flag is false.
GenerativeExamples == [i \in DOMAIN targets.yes_no |-> targets.yes_no[i] = FALSE]

\* The classification loss over every example of the batch: the mean of the
\* per-example focal values.
ClassificationOverAll ==
    LET per_example == categorical_focal_loss_with_logits(
                           outputs.encoder_yng_logits, targets.yng_label, "none").rows
    IN  FDiv(SumF(per_example), Num(Len(per_example)))

\* The rationale loss of the batch cut down to the generative examples.
RationaleOverGenerative ==
    rationale_loss(SelectRows(outputs.encoder_rationale_logits, GenerativeExamples),
                   SelectRows(targets.rationale_labels, GenerativeExamples),
                   SelectRows(targets.passage_mask, GenerativeExamples),
                   args.max_rationale_length, "mean", NoMask).value

\* The generative loss of the batch cut down to the generative examples.
GenerativeOverGenerative ==
    generative_loss(SelectRows(outputs.logits, GenerativeExamples),
                    SelectRows(targets.labels, GenerativeExamples),
                    "mean", NoMask).value

\* C6: forward returns w_c * C + w_r * R + w_g * G with C taken over every
\* example and R, G over the examples whose yes_no flag is false only, and
\* its log mapping holds the unweighted C, R and G.
C6_CompositeLoss ==
    Called("EncoderDecoderLoss") =>
        /\ loss_out.result.total_loss =
              FAdd(FAdd(FMul(Num(args.w.yng), ClassificationOverAll),
                        FMul(Num(args.w.rationale), RationaleOverGenerative)),
                   FMul(Num(args.w.generative), GenerativeOverGenerative))
        /\ loss_out.result.loss_logs =
              [yng_loss |-> ClassificationOverAll,
               rationale_loss |-> RationaleOverGenerative,
               generative_loss |-> GenerativeOverGenerative]

\* C6 witness: two examples, only the second generative, unequal weights, and
\* a first example that would change both masked terms were it included.
C6_Witness ==
    /\ Called("EncoderDecoderLoss")
    /\ targets.yes_no = <<TRUE, FALSE>>
    /\ args.w = [yng |-> 2, rationale |-> 3, generative |-> 5]
    /\ rationale_loss(outputs.encoder_rationale_logits, targets.rationale_labels,
                      targets.passage_mask, args.max_rationale_length, "mean",
                      NoMask).value # loss_out.result.loss_logs.rationale_loss
    /\ generative_loss(outputs.logits, targets.labels, "mean", NoMask).value
          # loss_out.result.loss_logs.generative_loss
    /\ ~IsZero(loss_out.result.loss_logs.rationale_loss)
    /\ ~IsZero(loss_out.result.loss_logs.generative_loss)

\* C7: when every example of the batch has yes_no = True, the rationale and
\* generative components are the number zero (no nan, no error) and the total
\* is w_c times the classification loss.
C7_NoGenerativeExample ==
    (Called("EncoderDecoderLoss") /\ \A i \in DOMAIN targets.yes_no : targets.yes_no[i]) =>
        /\ loss_out.result.loss_logs.rationale_loss = Num(0)
        /\ loss_out.result.loss_logs.generative_loss = Num(0)
        /\ loss_out.result.total_loss = FMul(Num(args.w.yng), ClassificationOverAll)

\* C7 witness: a batch of two yes/no examples under unequal weights.
C7_Witness ==
    /\ Called("EncoderDecoderLoss")
    /\ targets.yes_no = <<TRUE, TRUE>>
    /\ args.w = [yng |-> 2, rationale |-> 3, generative |-> 5]
    /\ ~IsZero(loss_out.result.total_loss)

\* The examples rationale_loss keeps.
Survivors ==
    [i \in DOMAIN targets.rationale_labels |->
        ~Discarded(targets.rationale_labels, targets.passage_mask, i)]

\* C8: a discarded example adds nothing to the rationale loss and is not
\* counted by the mean: the loss is that of the batch without the discarded
\* examples, and changing a discarded example's rationale logits or labels,
\* the example staying discarded, changes neither the rationale loss nor the
\* composite loss.
C8_DiscardedExamples ==
    /\ Called("rationale_loss") =>
          loss_out.result =
              rationale_loss(SelectRows(outputs.encoder_rationale_logits, Survivors),
                             SelectRows(targets.rationale_labels, Survivors),
                             SelectRows(targets.passage_mask, Survivors),
                             args.max_rationale_length, args.reduction, NoMask)
    /\ (lpc = "called" /\ edit = "perturb") => loss_out.result = prev_out.result

\* C8 witness: the composite loss called again after a change to a generative
\* example that is over the length threshold, next to an example that counts.
C8_Witness ==
    /\ Called("EncoderDecoderLoss")
    /\ edit = "perturb"
    /\ Len(targets.yes_no) = 2
    /\ \E i \in DOMAIN targets.yes_no :
          /\ ~targets.yes_no[i]
          /\ ~Survivors[i]
    /\ \E i \in DOMAIN targets.yes_no : Survivors[i]
    /\ ~IsZero(loss_out.result.loss_logs.rationale_loss)

\* The labels inside the passage and the passage bits of the kept examples.
SurvivorLabels ==
    SelectRows(MaskedLabels(targets.rationale_labels, targets.passage_mask), Survivors)
SurvivorPassage == SelectRows(targets.passage_mask, Survivors)

WeightSum(weights, positions) ==
    SumF([j \in DOMAIN weights |-> IF j \in positions THEN weights[j] ELSE Num(0)])

\* C9: for every kept example with n passage tokens of which k are positive,
\* 0 < k < n, the normalized weights of the positive passage tokens sum to
\* 1/2, those of the negative passage tokens sum to 1/2, and every position
\* outside the passage has weight 0.
C9_BalancedWeights ==
    Called("rationale_loss") =>
        /\ Len(loss_out.detail) = Len(SurvivorLabels)
        /\ \A r \in DOMAIN loss_out.detail :
              LET lb == SurvivorLabels[r]
                  pm == SurvivorPassage[r]
                  n == SumInt(pm)
                  k == SumInt(lb)
              IN  (0 < k /\ k < n) =>
                    /\ WeightSum(loss_out.detail[r],
                                 {j \in DOMAIN lb : pm[j] = 1 /\ lb[j] = 1}) = Frac(1, 2)
                    /\ WeightSum(loss_out.detail[r],
                                 {j \in DOMAIN lb : pm[j] = 1 /\ lb[j] = 0}) = Frac(1, 2)
                    /\ \A j \in DOMAIN lb : pm[j] = 0 => loss_out.detail[r][j] = Num(0)

\* C9 witness: a kept example with one positive among three passage tokens,
\* and one with a position outside the passage.
C9_Witness ==
    /\ Called("rationale_loss")
    /\ \E r \in DOMAIN loss_out.detail :
          /\ SumInt(SurvivorPassage[r]) = 3
          /\ SumInt(SurvivorLabels[r]) = 1
          /\ \E j \in DOMAIN loss_out.detail[r] : loss_out.detail[r][j] = Frac(1, 4)

\* The rows generative_loss keeps.
KeptTargets ==
    IF args.mask.given THEN SelectRows(targets.labels, args.mask.bits)
    ELSE targets.labels

\* C10: appending ignored positions to logits and labels changes no
\* per-example loss and not the reduced loss, and an example whose tokens are
\* all ignored has the loss zero.
C10_PaddingInvariance ==
    Called("generative_loss") =>
        /\ edit = "pad" =>
              /\ loss_out.detail = prev_out.detail
              /\ loss_out.result = prev_out.result
        /\ Len(loss_out.detail) = Len(KeptTargets)
        /\ \A r \in DOMAIN loss_out.detail :
              (\A j \in DOMAIN KeptTargets[r] : KeptTargets[r][j] = IGNORE)
                  => loss_out.detail[r] = Num(0)

\* C10 witness: after padding, a batch with an example that has a scored
\* token and an example whose tokens are all ignored.
C10_Witness ==
    /\ Called("generative_loss")
    /\ edit = "pad"
    /\ \E r \in DOMAIN loss_out.detail : ~IsZero(loss_out.detail[r])
    /\ \E r \in DOMAIN loss_out.detail :
          \A j \in DOMAIN KeptTargets[r] : KeptTargets[r][j] = IGNORE

(***************************************************************************)
(* Properties of the training run.                                         *)
(***************************************************************************)
\* A train_batch call has run to its end in this step of the behaviour.
TrainBatchCompleted == pc = "batch" /\ pc' = "log"

\* C1: the optimizer step and the zeroing of the gradients happen only in a
\* train_batch call whose step argument satisfies
\* step % accumulation_steps = 0; in every other call the parameters are
\* unchanged (no optimizer update is added) and the gradients accumulated so
\* far persist, joined by the gradient of the current batch; nothing but
\* train_batch touches parameters or gradients.
C1_AccumulationRule ==
    [][ /\ (updates' # updates) =>
              /\ TrainBatchCompleted
              /\ step % config.accumulation_steps = 0
              /\ updates' = Append(updates, grads \cup {step})
              /\ grads' = {}
        /\ (TrainBatchCompleted /\ grads' = {}) =>
              /\ step % config.accumulation_steps = 0
              /\ updates' # updates
        /\ (TrainBatchCompleted /\ step % config.accumulation_steps # 0) =>
              /\ updates' = updates
              /\ grads' = grads \cup {step}
        /\ ~TrainBatchCompleted => (updates' = updates /\ grads' = grads)
      ]_vars

\* C1 witness: two consecutive steps off the boundary have left their
\* gradients in place after an earlier optimizer update.
C1_Witness ==
    /\ pc = "log"
    /\ Len(updates) >= 1
    /\ Cardinality(grads) = 2
    /\ step % config.accumulation_steps # 0

\* The number of train_batch calls that have run to their end.
CompletedBatches == IF pc = "log" THEN step + 1 ELSE step

\* C2: after k completed training steps the learning-rate scheduler and the
\* teacher-force scheduler have each been stepped exactly k times, whatever
\* accumulation_steps is.
C2_SchedulersEveryStep ==
    /\ lr_sched = CompletedBatches
    /\ tf_sched = CompletedBatches

\* C2 witness: the schedulers have advanced past a step that was not an
\* accumulation boundary, so that they lead the optimizer.
C2_Witness ==
    /\ pc = "done"
    /\ config.accumulation_steps > 1
    /\ lr_sched = total_steps
    /\ tf_sched = total_steps
    /\ Len(updates) < lr_sched

EvalRecords == SelectSeq(wandb_log, LAMBDA r : r.kind = "eval")

EvalCount(s) ==
    Cardinality({i \in DOMAIN EvalRecords : EvalRecords[i].step = s})

\* The evaluation phase of completed step s is over.
EvaluationSettled(s) == s < step \/ pc \notin {"eval", "val_loop"}

\* C3: once the evaluation phase of a completed step is over, the log holds
\* exactly one evaluation record for it when its count is a multiple of
\* log_interval or equals total_steps, and none otherwise; every evaluation
\* record follows a pass over all validation batches.
C3_EvaluationCadence ==
    /\ \A s \in 1..step :
          EvaluationSettled(s) =>
              EvalCount(s) = IF (s % config.log_interval = 0) \/ (s = total_steps)
                             THEN 1 ELSE 0
    /\ \A i \in DOMAIN EvalRecords :
          /\ EvalRecords[i].step \in 1..step
          /\ EvalRecords[i].val_n = config.val_batches

\* C3 witness: a finished run whose total is a multiple of log_interval, with
\* one evaluation for the final step and a step without evaluation.
C3_Witness ==
    /\ pc = "done"
    /\ config.log_interval > 1
    /\ total_steps % config.log_interval = 0
    /\ EvalCount(total_steps) = 1
    /\ EvalCount(1) = 0

CheckpointCount(s) ==
    Cardinality({i \in DOMAIN checkpoints : checkpoints[i].step = s})

\* The checkpoint phase of completed step s is over.
CheckpointSettled(s) == s < step \/ pc \notin {"eval", "val_loop", "checkpoint"}

\* C4: once the checkpoint phase of a completed step is over, exactly one
\* checkpoint has been persisted for it when its count is a multiple of
\* checkpoint_interval or equals total_steps, and none otherwise.
C4_CheckpointCadence ==
    /\ \A s \in 1..step :
          CheckpointSettled(s) =>
              CheckpointCount(s) =
                  IF (s % config.checkpoint_interval = 0) \/ (s = total_steps)
                  THEN 1 ELSE 0
    /\ \A i \in DOMAIN checkpoints : checkpoints[i].step \in 1..step

\* C4 witness: a finished run whose total is no multiple of
\* checkpoint_interval: the final step has its checkpoint, after earlier ones.
C4_Witness ==
    /\ pc = "done"
    /\ total_steps % config.checkpoint_interval # 0
    /\ CheckpointCount(total_steps) = 1
    /\ Len(checkpoints) >= 2

CheckpointRecords == SelectSeq(wandb_log, LAMBDA r : r.kind = "checkpoint")

\* C5: the checkpoints of a run carry the counters 0, 1, 2, ... in order, the
\* counter logged for a checkpoint is the counter of the checkpoint written
\* just before, and no two checkpoints of the run go to the same file.
C5_CheckpointCounter ==
    /\ \A i \in DOMAIN checkpoints :
          /\ checkpoints[i].checkpoint_counter = i - 1
          /\ checkpoints[i].file = i - 1
    /\ Len(CheckpointRecords) = Len(checkpoints)
    /\ \A i \in DOMAIN CheckpointRecords :
          /\ CheckpointRecords[i].counter = checkpoints[i].checkpoint_counter
          /\ CheckpointRecords[i].step = checkpoints[i].step
    /\ \A i, j \in DOMAIN checkpoints :
          i # j => checkpoints[i].file # checkpoints[j].file

\* C5 witness: a finished run that has written three checkpoints.
C5_Witness ==
    /\ pc = "done"
    /\ Len(checkpoints) >= 3
    /\ checkpoint_counter = Len(checkpoints)

(***************************************************************************)
(* Reduction modes and configuration errors.                               *)
(***************************************************************************)
\* C11: apply_reduction returns its input unchanged for "none", the mean for
\* "mean" and the sum for "sum"; an empty input gives zero under "mean" and
\* "sum"; any other mode string gives an error whatever the input, an empty
\* one included.
C11_ApplyReduction ==
    Called("apply_reduction") =>
        LET input == outputs.logits
            r == args.reduction
            res == loss_out.result
        IN  /\ r = "none" => res = Tensor(input)
            /\ r = "mean" =>
                  res = Scalar(IF Len(input) = 0 THEN Num(0)
                               ELSE FDiv(SumF(input), Num(Len(input))))
            /\ r = "sum" =>
                  res = Scalar(IF Len(input) = 0 THEN Num(0) ELSE SumF(input))
            /\ r \notin {"none", "mean", "sum"} => res = ValueError

\* C11 witness: an unsupported mode on an empty input has raised the error.
C11_Witness ==
    /\ Called("apply_reduction")
    /\ args.reduction = "max"
    /\ Len(outputs.logits) = 0
    /\ loss_out.result = ValueError

\* C13 as stated: a loss object given an unsupported reduction string fails
\* at construction, so no such object is ever constructed or called.
C13_RaisedAtConstruction ==
    (loss_fn \in LossClasses /\ args.reduction \notin {"none", "mean", "sum"}) =>
        lpc \in {"new", "ValueError"}

\* C13, amended: constructing a loss object never fails, whatever the
\* reduction string; an unsupported string raises the ValueError of
\* apply_reduction at the first call of the object, and a supported one never
\* raises.
C13_RaisedAtFirstCall ==
    loss_fn \in LossClasses =>
        /\ lpc # "ValueError"
        /\ lpc = "called" =>
              (loss_out.result = ValueError
                   <=> args.reduction \notin {"none", "mean", "sum"})

\* C13 witness: an object built with an unsupported reduction string was
\* constructed and its first call has raised.
C13_Witness ==
    /\ loss_fn = "EncoderDecoderRationaleLoss"
    /\ args.reduction = "max"
    /\ lpc = "called"
    /\ loss_out.result = ValueError

(***************************************************************************)
(* The class weights of an example with a single class in its passage.     *)
(***************************************************************************)
SurvivorLogits == SelectRows(outputs.encoder_rationale_logits, Survivors)

\* What position j of kept example r adds to that example's loss.
Contribution(r, j) ==
    FMul(BCEWithLogits(SurvivorLogits[r][j], SurvivorLabels[r][j]),
         loss_out.detail[r][j])

\* No weight and no loss value of the call is infinite or not a number.
WeightsFinite ==
    /\ loss_out.result.kind # "ValueError"
    /\ loss_out.result.value.kind = "num"
    /\ \A r \in DOMAIN loss_out.detail :
          \A j \in DOMAIN loss_out.detail[r] : loss_out.detail[r][j].kind = "num"

\* A kept example whose n > 0 passage tokens all have the same label.
SingleClass(r) ==
    LET n == SumInt(SurvivorPassage[r])
        k == SumInt(SurvivorLabels[r])
    IN  n > 0 /\ (k = n \/ k = 0)

\* C15 as stated: no weight is infinite or NaN, and in a kept example whose
\* passage tokens are all positive (or all negative) the tokens of that one
\* present class add zero loss.
C15_PresentClassZero ==
    Called("rationale_loss") =>
        /\ WeightsFinite
        /\ \A r \in DOMAIN loss_out.detail :
              SingleClass(r) =>
                  \A j \in DOMAIN loss_out.detail[r] :
                      SurvivorPassage[r][j] = 1 => Contribution(r, j) = Num(0)

\* C15, amended: no weight is infinite or NaN; in a kept example whose n > 0
\* passage tokens are all positive (or all negative) the absent class gets no
\* weight and every passage token, all of the present class, has weight 1/n
\* and adds its cross-entropy divided by n; a kept example with an empty
\* passage has weight 0 everywhere.
C15_AbsentClassZero ==
    Called("rationale_loss") =>
        /\ WeightsFinite
        /\ \A r \in DOMAIN loss_out.detail :
              LET n == SumInt(SurvivorPassage[r])
              IN  \A j \in DOMAIN loss_out.detail[r] :
                    /\ SingleClass(r) /\ SurvivorPassage[r][j] = 1 =>
                          /\ loss_out.detail[r][j] = Frac(1, n)
                          /\ Contribution(r, j) =
                                FDiv(BCEWithLogits(SurvivorLogits[r][j],
                                                   SurvivorLabels[r][j]), Num(n))
                          /\ Contribution(r, j) # Num(0)
                    /\ (SingleClass(r) \/ n = 0) /\ SurvivorPassage[r][j] = 0 =>
                          loss_out.detail[r][j] = Num(0)

\* C15 witness: a kept example with an all-positive passage and a position
\* outside it, and a kept example with an all-negative passage of two tokens.
C15_Witness ==
    /\ Called("rationale_loss")
    /\ \E r \in DOMAIN loss_out.detail :
          /\ SumInt(SurvivorLabels[r]) = 1
          /\ SumInt(SurvivorPassage[r]) = 1
          /\ Len(SurvivorPassage[r]) >= 2
    /\ \E r \in DOMAIN loss_out.detail :
          /\ SumInt(SurvivorLabels[r]) = 0
          /\ SumInt(SurvivorPassage[r]) = 2

(***************************************************************************)
(* Properties of whole runs.                                               *)
(***************************************************************************)
\* C12: with a model_type other than "encoder_decoder" and "encoder", make
\* fails before train is entered: no forward pass, optimizer step, scheduler
\* step, evaluation, log record or checkpoint ever happens.
C12_InvalidModelType ==
    config.model_type \notin {"encoder_decoder", "encoder"} =>
        /\ pc \in {"make", "config_error"}
        /\ last_forward = NoForward
        /\ updates = <<>>
        /\ grads = {}
        /\ lr_sched = 0
        /\ tf_sched = 0
        /\ step = 0
        /\ wandb_log = <<>>
        /\ checkpoints = <<>>

\* C12 witness: make has failed on an unsupported model_type.
C12_Witness ==
    /\ pc = "config_error"
    /\ config.model_type = "seq2seq"

\* C14 as stated: for both supported model types the loss object returns a
\* pair the training step can unpack, so with a teacher-force scheduler given
\* no training step ends in an error.
C14_LossContract ==
    (config.model_type \in {"encoder_decoder", "encoder"} /\ config.tf_given) =>
        pc # "aborted"

\* The steps train has logged.
TrainRecords == SelectSeq(wandb_log, LAMBDA r : r.kind = "train")

\* No step of the run raises: a supported loss contract and a scheduler.
NoStepError == config.model_type = "encoder_decoder" /\ config.tf_given

\* C16: the step counter never exceeds total_steps; a finished run has done
\* exactly total_steps = num_epochs * steps_per_epoch steps, the last one
\* followed by its evaluation and its checkpoint; and a run in which no step
\* raises does finish.
C16_StepsAndTermination ==
    /\ [](step <= config.num_epochs * config.steps_per_epoch)
    /\ [](pc = "done" =>
            /\ step = config.num_epochs * config.steps_per_epoch
            /\ Len(TrainRecords) = config.num_epochs * config.steps_per_epoch
            /\ \A i \in DOMAIN TrainRecords : TrainRecords[i].step = i
            /\ EvalCount(step) = 1
            /\ CheckpointCount(step) = 1
            /\ wandb_log[Len(wandb_log)].kind = "checkpoint"
            /\ wandb_log[Len(wandb_log)].step = step)
    /\ (pc = "make" /\ NoStepError) ~> (pc = "done")

\* C16 witness: a run of two epochs of three steps has finished.
C16_Witness ==
    /\ pc = "done"
    /\ config.num_epochs = 2
    /\ config.steps_per_epoch = 3
    /\ step = 6

\* The batches whose gradient the optimizer has applied.
AppliedBatches == UNION {updates[i] : i \in DOMAIN updates}

\* C17: a checkpoint is written only after the optimizer and both schedulers
\* have done their work for the step, and after the step's evaluation record
\* when an evaluation is due on it; an evaluation starts and ends after that
\* work too and before the step's checkpoint; the checkpoint holds the count
\* of completed steps and the epoch of the step.
C17_StepOrder ==
    [][ /\ (pc \in {"eval", "val_loop"} \/ Len(checkpoints') > Len(checkpoints)) =>
              /\ step >= 1
              /\ lr_sched = step
              /\ tf_sched = step
              /\ (step - 1) \in grads \cup AppliedBatches
        /\ pc \in {"eval", "val_loop"} => CheckpointCount(step) = 0
        /\ Len(checkpoints') > Len(checkpoints) =>
              /\ ((step % config.log_interval = 0) \/ (step = total_steps)) =>
                     EvalCount(step) = 1
              /\ checkpoints' = Append(checkpoints, checkpoints'[Len(checkpoints')])
              /\ checkpoints'[Len(checkpoints')].step = step
              /\ checkpoints'[Len(checkpoints')].epoch = (step - 1) \div config.steps_per_epoch
              /\ UNCHANGED <<step, lr_sched, tf_sched, grads, updates>>
      ]_vars

\* C17 witness: in the second epoch a checkpoint follows the evaluation record
\* of the same step.
C17_Witness ==
    /\ pc = "next"
    /\ epoch = 1
    /\ Len(wandb_log) >= 2
    /\ wandb_log[Len(wandb_log)].kind = "checkpoint"
    /\ wandb_log[Len(wandb_log) - 1].kind = "eval"
    /\ wandb_log[Len(wandb_log) - 1].step = step
    /\ checkpoints[Len(checkpoints)].step = step

\* C18: an evaluation forwards in evaluation mode and without gradients, and
\* changes neither parameters, gradients, schedulers, step counter nor
\* checkpoint counter; every training forward runs in training mode.
C18_EvaluationIsolated ==
    /\ [][(pc = "eval" \/ pc = "val_loop") =>
             (UNCHANGED <<updates, grads, lr_sched, tf_sched, step,
                          checkpoint_counter, checkpoints>>)]_vars
    /\ [](last_forward.kind = "val" =>
              last_forward.mode = "eval" /\ last_forward.no_grad)
    /\ [](last_forward.kind = "train" =>
              last_forward.mode = "train" /\ ~last_forward.no_grad)
    /\ [](pc = "batch" => model_mode = "train")

\* C18 witness: a training forward has run after an evaluation.
C18_Witness ==
    /\ pc = "log"
    /\ Len(EvalRecords) >= 1
    /\ last_forward.kind = "train"
    /\ last_forward.mode = "train"

\* C19 as stated: every optimizer update covers accumulation_steps
\* consecutive batches, and a finished run has applied the gradient of every
\* batch, none left accumulated.
C19_EveryGradientApplied ==
    /\ \A i \in DOMAIN updates :
          Cardinality(updates[i]) = config.accumulation_steps
    /\ pc = "done" =>
          /\ grads = {}
          /\ AppliedBatches = 0..(total_steps - 1)

\* C20 as stated: the teacher-force value logged for a step is the one its
\* forward pass was given, and a run without a teacher-force scheduler logs
\* 0.0 and its steps complete without error.
C20_LoggedTeacherForce ==
    /\ pc = "log" => tf = last_forward.teacher_force
    /\ (config.model_type = "encoder_decoder" /\ ~config.tf_given) =>
          /\ pc # "aborted"
          /\ pc = "log" => tf = LiteralZero

====
